---- MODULE Spec2Model ----
(***************************************************************************)
(* A model of the streaming OSM XML reader of src/src/main.rs:             *)
(* OsmXmlReader (the element assembler _next, the builder                  *)
(* _process_elements, the attribute typing layer), the Iterator            *)
(* implementation, the callback drivers map_nodes, map_ways, map_all, and   *)
(* the background pipeline in_background.                                  *)
(*                                                                         *)
(* Strings are sequences of one-character strings, so that parsing is      *)
(* computed from the characters.  Option<T> is <<>> (None) or <<x>>        *)
(* (Some(x)).  Result<T, ReadError> is a record tagged "Ok" or "Err"; a    *)
(* panic!() is a record tagged "Panic".                                    *)
(***************************************************************************)
EXTENDS Integers, Sequences, FiniteSets, TLC

-----------------------------------------------------------------------------
(* Bounds of the model.                                                    *)

\* longest event stream of the specification with arbitrary flags
MaxEvents == 3
\* longest event stream of the specification of a new reader
MaxDocEvents == 4
\* largest number of children of the one object of the builder specification
MaxChildren == 3
\* longest event stream of the driver specification
MaxDriverEvents == 3
\* largest number of driver calls made on one reader
MaxDriverCalls == 2
\* longest event stream of the specification of the nodes
MaxNodeEvents == 3
\* largest number of children of the one object of the member specification
MaxMembers == 3
\* largest number of objects of a document given to the background pipeline
MaxPipeItems == 6
\* the largest number of events of a well-formed document read with filters
MaxFilterEvents == 5

-----------------------------------------------------------------------------
(* Option and Result.                                                      *)

None == <<>>
Some(x) == <<x>>
Ok(v) == [tag |-> "Ok", val |-> v]
Err(m) == [tag |-> "Err", msg |-> m]
Panic(m) == [tag |-> "Panic", msg |-> m]

\* impl From<ParseIntError | ParseFloatError | ParseBoolError | ...> for ReadError
ErrParseInt == Err("Parsing error ParseIntError")
ErrParseFloat == Err("Parsing error ParseFloatError")
ErrParseBool == Err("Parsing error ParseBoolError")
ErrDecode == Err("Parsing error Utf8Error")

-----------------------------------------------------------------------------
(* str::parse.  A literal of the model has at most a few digits, far below *)
(* the width of i64, u64 and u32, so the overflow error of the integer     *)
(* parsers is not reachable and is left out.                               *)

Digits == {"0", "1", "2", "3", "4", "5", "6", "7", "8", "9"}

DigitVal(c) ==
    CASE c = "0" -> 0 [] c = "1" -> 1 [] c = "2" -> 2 [] c = "3" -> 3
      [] c = "4" -> 4 [] c = "5" -> 5 [] c = "6" -> 6 [] c = "7" -> 7
      [] c = "8" -> 8 [] c = "9" -> 9

AllDigits(s) == \A i \in 1..Len(s) : s[i] \in Digits

RECURSIVE DigitsVal(_)
DigitsVal(s) ==
    IF s = <<>> THEN 0
    ELSE DigitsVal(SubSeq(s, 1, Len(s) - 1)) * 10 + DigitVal(s[Len(s)])

\* <i64 as FromStr>::from_str: an optional sign, then one or more digits
parse_i64(s) ==
    LET signed == s # <<>> /\ s[1] \in {"+", "-"}
        body == IF signed THEN Tail(s) ELSE s
    IN  IF body = <<>> \/ ~AllDigits(body) THEN ErrParseInt
        ELSE IF signed /\ s[1] = "-" THEN Ok(0 - DigitsVal(body))
        ELSE Ok(DigitsVal(body))

\* <u64 as FromStr>::from_str and <u32 as FromStr>::from_str: an optional
\* "+", then one or more digits; a "-" is an invalid digit
parse_unsigned(s) ==
    LET body == IF s # <<>> /\ s[1] = "+" THEN Tail(s) ELSE s
    IN  IF body = <<>> \/ ~AllDigits(body) THEN ErrParseInt
        ELSE Ok(DigitsVal(body))

\* <bool as FromStr>::from_str: exactly "true" or "false"
parse_bool(s) ==
    IF s = <<"t", "r", "u", "e">> THEN Ok(TRUE)
    ELSE IF s = <<"f", "a", "l", "s", "e">> THEN Ok(FALSE)
    ELSE ErrParseBool

RECURSIVE Pow10(_)
Pow10(n) == IF n = 0 THEN 1 ELSE 10 * Pow10(n - 1)

RECURSIVE Normalize(_, _)
\* the decimal num / 10^scale without trailing zeros of the fraction
Normalize(num, scale) ==
    IF scale > 0 /\ num % 10 = 0 THEN Normalize(num \div 10, scale - 1)
    ELSE [num |-> num, scale |-> scale]

\* <f32 as FromStr>::from_str on the decimal literals sign? digits* ('.' digits*)?
\* with at least one digit; the value is kept as num / 10^scale.  Exponents,
\* "inf" and "NaN" do not occur in the model's inputs.
parse_f32(s) ==
    LET signed == s # <<>> /\ s[1] \in {"+", "-"}
        body == IF signed THEN Tail(s) ELSE s
        dots == {i \in 1..Len(body) : body[i] = "."}
        dot == IF dots = {} THEN Len(body) + 1 ELSE CHOOSE i \in dots : TRUE
        int == SubSeq(body, 1, dot - 1)
        frac == SubSeq(body, dot + 1, Len(body))
        mag == DigitsVal(int) * Pow10(Len(frac)) + DigitsVal(frac)
    IN  IF Cardinality(dots) > 1 \/ ~AllDigits(int) \/ ~AllDigits(frac)
           \/ (int = <<>> /\ frac = <<>>)
        THEN ErrParseFloat
        ELSE Ok(Normalize(IF signed /\ s[1] = "-" THEN 0 - mag ELSE mag, Len(frac)))

-----------------------------------------------------------------------------
(* The attribute collector and the attribute typing layer.                 *)
(* An element is [name, attrs]: attrs is the tokenizer's ordered list of   *)
(* <<key, value>> pairs.  A value holding BadByte cannot be decoded.       *)

BadByte == "\\xFF"

EmptyMap == [x \in {} |-> <<>>]

\* HashMap::insert: the new value replaces the one the key had
hm_insert(hm, k, v) == [x \in (DOMAIN hm) \cup {k} |-> IF x = k THEN v ELSE hm[x]]

Undecodable(v) == \E i \in 1..Len(v) : v[i] = BadByte

RECURSIVE attrs_fold(_, _)
attrs_fold(hm, attrs) ==
    IF attrs = <<>> THEN Ok(hm)
    ELSE IF Undecodable(attrs[1][2]) THEN ErrDecode
    ELSE attrs_fold(hm_insert(hm, attrs[1][1], attrs[1][2]), Tail(attrs))

\* OsmXmlReader::_attrs_hashmap
attrs_hashmap(elt) == attrs_fold(EmptyMap, elt.attrs)

\* .map(|v| v.parse::<T>()).transpose() on the Option that attrs.get gave and
\* the Result of the parse
transposed(present, r) ==
    IF ~present THEN Ok(None)
    ELSE IF r.tag = "Ok" THEN Ok(Some(r.val)) ELSE r

\* attrs.get(key).map(|v| v.parse::<i64>()).transpose()
get_i64(hm, key) ==
    transposed(key \in DOMAIN hm, IF key \in DOMAIN hm THEN parse_i64(hm[key]) ELSE None)

\* attrs.get(key).map(|v| v.parse::<u64>()).transpose(), and the same for u32
get_unsigned(hm, key) ==
    transposed(key \in DOMAIN hm, IF key \in DOMAIN hm THEN parse_unsigned(hm[key]) ELSE None)

\* attrs.get(key).map(|v| v.parse::<bool>()).transpose()
get_bool(hm, key) ==
    transposed(key \in DOMAIN hm, IF key \in DOMAIN hm THEN parse_bool(hm[key]) ELSE None)

\* attrs.get(key).map(|v| v.clone())
get_cloned(hm, key) == IF key \in DOMAIN hm THEN Some(hm[key]) ELSE None

\* impl TryFrom<&ParsedAttrs> for OsmElementAttrs: the fields are evaluated in
\* the order written, the first failing one is the error
OsmElementAttrs_try_from(hm) ==
    LET changeset == get_unsigned(hm, "changeset")
        deleted == get_bool(hm, "deleted")
        id == get_i64(hm, "id")
        uid == get_i64(hm, "uid")
        version == get_unsigned(hm, "version")
        visible == get_bool(hm, "visible")
    IN  IF changeset.tag # "Ok" THEN changeset
        ELSE IF deleted.tag # "Ok" THEN deleted
        ELSE IF id.tag # "Ok" THEN id
        ELSE IF uid.tag # "Ok" THEN uid
        ELSE IF version.tag # "Ok" THEN version
        ELSE IF visible.tag # "Ok" THEN visible
        ELSE Ok([changeset |-> changeset.val, deleted |-> deleted.val,
                 id |-> id.val, timestamp |-> get_cloned(hm, "timestamp"),
                 uid |-> uid.val, user |-> get_cloned(hm, "user"),
                 version |-> version.val, visible |-> visible.val])

\* impl TryFrom<Arc<str>> for ObjType
ObjType_try_from(val) ==
    IF val = <<"n", "o", "d", "e">> THEN Ok("Node")
    ELSE IF val = <<"w", "a", "y">> THEN Ok("Way")
    ELSE IF val = <<"r", "e", "l", "a", "t", "i", "o", "n">> THEN Ok("Relation")
    ELSE Err("object type is not node/way/relation")

-----------------------------------------------------------------------------
(* The domain object builder.                                              *)

\* the insertion that keeps the value a key already has
tags_insert_keep_first(obj, k, v) ==
    IF k \in DOMAIN obj.tags THEN obj ELSE [obj EXCEPT !.tags = hm_insert(@, k, v)]

\* OsmObj::tags_insert
tags_insert(obj, k, v) == [obj EXCEPT !.tags = hm_insert(@, k, v)]

\* the b"tag" arm of the child loop of _process_elements
child_tag(res, elt) ==
    LET hm == attrs_hashmap(elt)
    IN  IF hm.tag # "Ok" THEN hm
        ELSE IF "k" \in DOMAIN hm.val /\ "v" \in DOMAIN hm.val
        THEN Ok(tags_insert(res, hm.val["k"], hm.val["v"]))
        ELSE Ok(res)

\* the arm requiring ref, as the member arm does
child_nd_strict(res, elt) ==
    IF res.kind # "Way" THEN Ok(res)
    ELSE LET hm == attrs_hashmap(elt)
         IN  IF hm.tag # "Ok" THEN hm
             ELSE IF "ref" \notin DOMAIN hm.val
             THEN Err("nd element has no 'ref' attribute")
             ELSE LET nd == parse_i64(hm.val["ref"])
                  IN  IF nd.tag # "Ok" THEN nd
                      ELSE Ok([res EXCEPT !.nodes = Append(@, nd.val)])

\* the b"nd" arm of the child loop of _process_elements
child_nd(res, elt) ==
    IF res.kind # "Way" THEN Ok(res)
    ELSE LET hm == attrs_hashmap(elt)
         IN  IF hm.tag # "Ok" THEN hm
             ELSE LET nd == get_i64(hm.val, "ref")
                  IN  IF nd.tag # "Ok" THEN nd
                      ELSE IF nd.val = None THEN Ok(res)
                      ELSE Ok([res EXCEPT !.nodes = Append(@, nd.val[1])])

\* the arm that leaves out a member lacking an attribute, as the nd arm does
child_member_lenient(res, elt) ==
    IF res.kind # "Relation" THEN Ok(res)
    ELSE LET hm == attrs_hashmap(elt)
         IN  IF hm.tag # "Ok" THEN hm
             ELSE IF {"type", "ref", "role"} \subseteq DOMAIN hm.val
             THEN LET mtype == ObjType_try_from(hm.val["type"])
                      mref == parse_i64(hm.val["ref"])
                  IN  IF mtype.tag # "Ok" THEN mtype
                      ELSE IF mref.tag # "Ok" THEN mref
                      ELSE Ok([res EXCEPT !.members =
                                 Append(@, [mtype |-> mtype.val, mref |-> mref.val,
                                            mrole |-> hm.val["role"]])])
             ELSE Ok(res)

\* the b"member" arm of the child loop of _process_elements
child_member(res, elt) ==
    IF res.kind # "Relation" THEN Ok(res)
    ELSE LET hm == attrs_hashmap(elt)
         IN  IF hm.tag # "Ok" THEN hm
             ELSE IF "type" \notin DOMAIN hm.val
             THEN Err("member element has no 'type' attribute")
             ELSE LET mtype == ObjType_try_from(hm.val["type"])
                  IN  IF mtype.tag # "Ok" THEN mtype
                      ELSE IF "ref" \notin DOMAIN hm.val
                      THEN Err("member element has no 'ref' attribute")
                      ELSE LET mref == parse_i64(hm.val["ref"])
                           IN  IF mref.tag # "Ok" THEN mref
                               ELSE IF "role" \notin DOMAIN hm.val
                               THEN Err("member element has no 'role' attribute")
                               ELSE Ok([res EXCEPT !.members =
                                          Append(@, [mtype |-> mtype.val,
                                                     mref |-> mref.val,
                                                     mrole |-> hm.val["role"]])])

\* one iteration of `for elt in &elts[1..elts.len()]`
child_step(res, elt) ==
    CASE elt.name = "tag" -> child_tag(res, elt)
      [] elt.name = "nd" -> child_nd(res, elt)
      [] elt.name = "member" -> child_member(res, elt)
      [] OTHER -> Ok(res)

RECURSIVE child_loop(_, _)
\* `for elt in &elts[1..elts.len()] { ... }` followed by Ok(Some(res))
child_loop(res, children) ==
    IF children = <<>> THEN Ok(Some(res))
    ELSE LET step == child_step(res, Head(children))
         IN  IF step.tag # "Ok" THEN step ELSE child_loop(step.val, Tail(children))

\* the node arm with the two `let` lines exchanged: lat is looked at first
new_object_lat_first(elt, hm, osm_attrs) ==
    CASE elt.name = "node" ->
           IF "lat" \notin DOMAIN hm THEN Err("node has no latitude")
           ELSE LET lat == parse_f32(hm["lat"])
                IN  IF lat.tag # "Ok" THEN lat
                    ELSE IF "lon" \notin DOMAIN hm THEN Err("node has no longitude")
                    ELSE LET lon == parse_f32(hm["lon"])
                         IN  IF lon.tag # "Ok" THEN lon
                             ELSE Ok([kind |-> "Node", attrs |-> osm_attrs,
                                      lon |-> lon.val, lat |-> lat.val,
                                      tags |-> EmptyMap])
      [] elt.name = "way" ->
           Ok([kind |-> "Way", attrs |-> osm_attrs, tags |-> EmptyMap, nodes |-> <<>>])
      [] elt.name = "relation" ->
           Ok([kind |-> "Relation", attrs |-> osm_attrs, tags |-> EmptyMap,
               members |-> <<>>])
      [] OTHER -> Panic("wrong tag on pos 1 in tags vector")

\* the `match elt.name()` that creates the object from the opening element
new_object(elt, hm, osm_attrs) ==
    CASE elt.name = "node" ->
           IF "lon" \notin DOMAIN hm THEN Err("node has no longitude")
           ELSE LET lon == parse_f32(hm["lon"])
                IN  IF lon.tag # "Ok" THEN lon
                    ELSE IF "lat" \notin DOMAIN hm THEN Err("node has no latitude")
                    ELSE LET lat == parse_f32(hm["lat"])
                         IN  IF lat.tag # "Ok" THEN lat
                             ELSE Ok([kind |-> "Node", attrs |-> osm_attrs,
                                      lon |-> lon.val, lat |-> lat.val,
                                      tags |-> EmptyMap])
      [] elt.name = "way" ->
           Ok([kind |-> "Way", attrs |-> osm_attrs, tags |-> EmptyMap, nodes |-> <<>>])
      [] elt.name = "relation" ->
           Ok([kind |-> "Relation", attrs |-> osm_attrs, tags |-> EmptyMap,
               members |-> <<>>])
      [] OTHER -> Panic("wrong tag on pos 1 in tags vector")

\* OsmXmlReader::_process_elements
process_elements(elts) ==
    IF elts = <<>> THEN Ok(None)
    ELSE LET elt == elts[1]
             hm == attrs_hashmap(elt)
         IN  IF hm.tag # "Ok" THEN hm
             ELSE LET osm_attrs == OsmElementAttrs_try_from(hm.val)
                  IN  IF osm_attrs.tag # "Ok" THEN osm_attrs
                      ELSE LET res == new_object(elt, hm.val, osm_attrs.val)
                           IN  IF res.tag # "Ok" THEN res
                               ELSE child_loop(res.val, Tail(elts))

-----------------------------------------------------------------------------
(* The state.                                                              *)

VARIABLES
    input,          \* the document: the events the tokenizer rd delivers, in order
    pos,            \* how many events of input rd.read_event has delivered
    skip_nodes,     \* OsmXmlReader.skip_nodes
    skip_ways,      \* OsmXmlReader.skip_ways
    skip_relations, \* OsmXmlReader.skip_relations
    obj_started,    \* local of _next
    do_skip,        \* local of _next
    elements,       \* local of _next: the buffered elements of the open object
    pc,             \* "caller": no call of next is running; "loop": in the loop
                    \* of _next; "ret": next has returned item, which its caller
                    \* has not looked at yet; "panic": the process has aborted
    item,           \* the Option<Result<OsmObj, ReadError>> next returned last
    out,            \* history: the Some(..) items next has returned (to the
                    \* running driver call), each with the number of events
                    \* read when it was returned
    ended,          \* history: next has returned None (to the running driver call)
    driver,         \* "iter": the caller uses the Iterator directly; otherwise
                    \* the driver that runs or ran last ("none" before the first)
    dpc,            \* "off": no driver runs; "for": in the driver's for loop;
                    \* "returned": the driver has returned ret
    node_cb,        \* map_all: the node callback is Some
    way_cb,         \* map_all: the way callback is Some
    rel_cb,         \* map_all: the relation callback is Some
    calls,          \* history: the callback invocations of the running driver
    ret,            \* the Result the driver (or the producer thread) returned
    ncalls,         \* how many driver calls were made on the reader
    queue,          \* in_background: the messages in the channel, oldest first
    received,       \* history: the items the receiving iterator has yielded
    rec_state       \* "none": no channel; "open": the caller holds the
                    \* receiving iterator; "ended": it has yielded None;
                    \* "dropped": the caller has dropped it

vars == <<input, pos, skip_nodes, skip_ways, skip_relations, obj_started, do_skip,
          elements, pc, item, out, ended, driver, dpc, node_cb, way_cb, rel_cb,
          calls, ret, ncalls, queue, received, rec_state>>

flags == <<skip_nodes, skip_ways, skip_relations>>
locals == <<obj_started, do_skip, elements>>
driver_vars == <<driver, dpc, node_cb, way_cb, rel_cb, calls, ret, ncalls>>
channel_vars == <<queue, received, rec_state>>

-----------------------------------------------------------------------------
(* Events of the tokenizer.                                                *)

Start(name, attrs) == [type |-> "Start", name |-> name, attrs |-> attrs]
Empty(name, attrs) == [type |-> "Empty", name |-> name, attrs |-> attrs]
End(name) == [type |-> "End", name |-> name, attrs |-> <<>>]
Text == [type |-> "Text", name |-> "", attrs |-> <<>>]
Eof == [type |-> "Eof", name |-> "", attrs |-> <<>>]

ObjectNames == {"node", "way", "relation"}
ChildNames == {"nd", "tag", "member"}

\* the attribute lists of the events of the model
IdAttr(d) == <<"id", <<d>>>>
GoodNodeAttrs == <<IdAttr("1"), <<"lat", <<"1", ".", "0">>>>, <<"lon", <<"2", ".", "0">>>>>>
TagAttrs(k, v) == <<<<"k", <<k>>>>, <<"v", <<v>>>>>>
NdAttrs(r) == <<<<"ref", r>>>>
MemberAttrs == <<<<"type", <<"w", "a", "y">>>>, <<"ref", <<"5">>>>,
                 <<"role", <<"o", "u", "t", "e", "r">>>>>>

\* the events of the structural specification: the three kinds of object, open,
\* closed and self-closing, a node that cannot be built, children in both
\* forms, and an element that is neither an object nor a child
StructAlphabet ==
    { Start("node", GoodNodeAttrs), End("node"), Empty("node", <<IdAttr("1")>>),
      Start("way", <<IdAttr("5")>>), End("way"),
      Start("relation", <<IdAttr("9")>>), End("relation"),
      Empty("relation", <<IdAttr("9")>>),
      Empty("tag", TagAttrs("a", "b")), Start("tag", TagAttrs("a", "b")), End("tag"),
      Empty("nd", NdAttrs(<<"1">>)),
      Empty("bounds", <<>>) }

\* the events of the documents read by a new reader: an object of each kind
\* in open/close form or self-closing, children in both forms, an element
\* that is neither an object nor a child, and text between the elements
DocAlphabet ==
    { Start("node", GoodNodeAttrs), End("node"),
      Start("way", <<IdAttr("5")>>), End("way"),
      Empty("relation", <<IdAttr("9")>>),
      Empty("tag", TagAttrs("a", "b")), Start("tag", TagAttrs("a", "b")), End("tag"),
      Empty("nd", NdAttrs(<<"1">>)),
      Empty("bounds", <<>>), Text }

RECURSIVE SeqsUpTo(_, _)
\* the sequences over S of length at most n
SeqsUpTo(S, n) ==
    IF n = 0 THEN {<<>>}
    ELSE LET shorter == SeqsUpTo(S, n - 1)
         IN  shorter \cup {Append(q, e) : q \in {x \in shorter : Len(x) = n - 1}, e \in S}

\* rd.read_event: the next event of the document, Eof once it is exhausted
read_event == IF pos < Len(input) THEN input[pos + 1] ELSE Eof
pos_after == IF pos < Len(input) THEN pos + 1 ELSE pos

-----------------------------------------------------------------------------
(* Construction.                                                           *)

\* OsmXmlReader::new: all flags false; nothing has been read
new_reader ==
    /\ pos = 0
    /\ skip_nodes = FALSE /\ skip_ways = FALSE /\ skip_relations = FALSE
    /\ obj_started = FALSE /\ do_skip = FALSE /\ elements = <<>>
    /\ pc = "caller" /\ item = None /\ out = <<>> /\ ended = FALSE

no_driver(d) ==
    /\ driver = d /\ dpc = "off"
    /\ node_cb = FALSE /\ way_cb = FALSE /\ rel_cb = FALSE
    /\ calls = <<>> /\ ret = None /\ ncalls = 0
    /\ queue = <<>> /\ received = <<>> /\ rec_state = "none"

-----------------------------------------------------------------------------
(* Iterator::next and OsmXmlReader::_next.                                 *)

\* the caller may call next: a `for` loop over the reader is at its head, or
\* the direct user of the Iterator has not seen None yet
may_call_next ==
    IF driver = "iter" THEN pc = "caller" \/ (pc = "ret" /\ item # None)
    ELSE dpc = "for" /\ pc = "caller"

\* the entry of _next: fresh locals (lines 306-310)
next_call ==
    /\ may_call_next
    /\ pc' = "loop"
    /\ obj_started' = FALSE /\ do_skip' = FALSE /\ elements' = <<>>
    /\ UNCHANGED <<input, pos, flags, item, out, ended, driver_vars, channel_vars>>

\* `return r` out of _next, then .transpose() in Iterator::next; the locals of
\* _next end with the call
return_from_next(r) ==
    /\ obj_started' = FALSE /\ do_skip' = FALSE /\ elements' = <<>>
    /\ pc' = "ret"
    /\ IF r.tag = "Ok" /\ r.val = None
       THEN item' = None /\ ended' = TRUE /\ out' = out
       ELSE LET transposed_r == IF r.tag = "Ok" THEN Ok(r.val[1]) ELSE r
            IN  /\ item' = Some(transposed_r) /\ ended' = ended
                /\ out' = Append(out, [item |-> transposed_r, at |-> pos'])

\* panic!(): the process aborts
abort ==
    /\ pc' = "panic"
    /\ UNCHANGED <<locals, item, out, ended>>

\* _process_elements(elements) and what _next does with its result
return_processed(elts) ==
    \E r \in {process_elements(elts)} :
        IF r.tag = "Panic" THEN abort ELSE return_from_next(r)

\* a copy-and-paste slip in the match: the relation arm reads the way flag
skip_flag_of_pasted(nm) ==
    CASE nm = "node" -> skip_nodes
      [] nm = "way" -> skip_ways
      [] nm = "relation" -> skip_ways
      [] OTHER -> FALSE

\* do_skip = match nm { ... } (lines 322-327)
skip_flag_of(nm) ==
    CASE nm = "node" -> skip_nodes
      [] nm = "way" -> skip_ways
      [] nm = "relation" -> skip_relations
      [] OTHER -> FALSE

\* the check with the nd pattern forgotten
is_child_no_nd(nm) == nm \in {"tag", "member"}

\* matches!(nm, b"nd" | b"tag" | b"member") (line 318)
is_child(nm) == nm \in ChildNames

\* the arm building the object from its opening element alone as soon as it
\* is read, and returning the error then, before the children and the End
start_idle_fails_early ==
    /\ pc = "loop" /\ ~obj_started
    /\ read_event.type \in {"Start", "Empty"}
    /\ pos' = pos_after
    /\ LET e2 == read_event
           nm == e2.name
           skip == skip_flag_of(nm)
           pushed == IF skip THEN elements
                     ELSE Append(elements, [name |-> nm, attrs |-> e2.attrs])
       IN  IF is_child(nm) THEN abort
           ELSE IF nm \notin ObjectNames
           THEN /\ do_skip' = skip
                /\ UNCHANGED <<obj_started, elements, pc, item, out, ended>>
           ELSE IF ~skip /\ (e2.type = "Empty" \/ process_elements(pushed).tag = "Err")
           THEN return_processed(pushed)
           ELSE /\ do_skip' = skip
                /\ obj_started' = (e2.type # "Empty")
                /\ elements' = pushed
                /\ UNCHANGED <<pc, item, out, ended>>
    /\ UNCHANGED <<input, flags, driver_vars, channel_vars>>

\* the arm pushing every element read outside an object, before its name is
\* tested
start_idle_buffers_any ==
    /\ pc = "loop" /\ ~obj_started
    /\ read_event.type \in {"Start", "Empty"}
    /\ pos' = pos_after
    /\ LET e2 == read_event
           nm == e2.name
           skip == skip_flag_of(nm)
           pushed == IF skip THEN elements
                     ELSE Append(elements, [name |-> nm, attrs |-> e2.attrs])
       IN  IF is_child(nm) THEN abort
           ELSE IF nm \notin ObjectNames
           THEN /\ do_skip' = skip
                /\ elements' = pushed
                /\ UNCHANGED <<obj_started, pc, item, out, ended>>
           ELSE IF e2.type = "Empty" /\ ~skip THEN return_processed(pushed)
           ELSE /\ do_skip' = skip
                /\ obj_started' = (e2.type # "Empty")
                /\ elements' = pushed
                /\ UNCHANGED <<pc, item, out, ended>>
    /\ UNCHANGED <<input, flags, driver_vars, channel_vars>>

\* the arm (false, Start | Empty) of the loop of _next (lines 316-341)
start_idle ==
    /\ pc = "loop" /\ ~obj_started
    /\ read_event.type \in {"Start", "Empty"}
    /\ pos' = pos_after
    /\ LET e2 == read_event
           nm == e2.name
           skip == skip_flag_of(nm)
           pushed == IF skip THEN elements
                     ELSE Append(elements, [name |-> nm, attrs |-> e2.attrs])
       IN  IF is_child(nm) THEN abort
           ELSE IF nm \notin ObjectNames
           THEN /\ do_skip' = skip
                /\ UNCHANGED <<obj_started, elements, pc, item, out, ended>>
           ELSE IF e2.type = "Empty" /\ ~skip THEN return_processed(pushed)
           ELSE /\ do_skip' = skip
                /\ obj_started' = (e2.type # "Empty")
                /\ elements' = pushed
                /\ UNCHANGED <<pc, item, out, ended>>
    /\ UNCHANGED <<input, flags, driver_vars, channel_vars>>

\* the arm with the nesting check made only for an object that is not skipped
start_in_object_unchecked_skip ==
    /\ pc = "loop" /\ obj_started
    /\ read_event.type \in {"Start", "Empty"}
    /\ pos' = pos_after
    /\ LET e2 == read_event
       IN  IF e2.name \in ObjectNames /\ ~do_skip THEN abort
           ELSE /\ elements' = IF do_skip THEN elements
                               ELSE Append(elements, [name |-> e2.name, attrs |-> e2.attrs])
                /\ UNCHANGED <<obj_started, do_skip, pc, item, out, ended>>
    /\ UNCHANGED <<input, flags, driver_vars, channel_vars>>

\* the arm (true, Start | Empty) of the loop of _next (lines 342-348)
start_in_object ==
    /\ pc = "loop" /\ obj_started
    /\ read_event.type \in {"Start", "Empty"}
    /\ pos' = pos_after
    /\ LET e2 == read_event
       IN  IF e2.name \in ObjectNames THEN abort
           ELSE /\ elements' = IF do_skip THEN elements
                               ELSE Append(elements, [name |-> e2.name, attrs |-> e2.attrs])
                /\ UNCHANGED <<obj_started, do_skip, pc, item, out, ended>>
    /\ UNCHANGED <<input, flags, driver_vars, channel_vars>>

\* the arm without the test of the closing name: any End closes the object
end_in_object_any_name ==
    /\ pc = "loop" /\ obj_started
    /\ read_event.type = "End"
    /\ pos' = pos_after
    /\ IF do_skip
       THEN /\ do_skip' = FALSE /\ obj_started' = FALSE
            /\ UNCHANGED <<elements, pc, item, out, ended>>
       ELSE return_processed(elements)
    /\ UNCHANGED <<input, flags, driver_vars, channel_vars>>

\* the arm (true, End) of the loop of _next (lines 349-358)
end_in_object ==
    /\ pc = "loop" /\ obj_started
    /\ read_event.type = "End"
    /\ pos' = pos_after
    /\ IF do_skip
       THEN /\ do_skip' = FALSE /\ obj_started' = FALSE
            /\ UNCHANGED <<elements, pc, item, out, ended>>
       ELSE IF read_event.name \in ObjectNames THEN return_processed(elements)
       ELSE UNCHANGED <<locals, pc, item, out, ended>>
    /\ UNCHANGED <<input, flags, driver_vars, channel_vars>>

\* the arm reporting an object that the end of input leaves open
eof_unclosed_is_error ==
    /\ pc = "loop"
    /\ read_event.type = "Eof"
    /\ pos' = pos_after
    /\ return_from_next(IF obj_started THEN Err("unexpected end of input") ELSE Ok(None))
    /\ UNCHANGED <<input, flags, driver_vars, channel_vars>>

\* the arm (_, Eof) of the loop of _next (lines 359-361)
eof ==
    /\ pc = "loop"
    /\ read_event.type = "Eof"
    /\ pos' = pos_after
    /\ return_from_next(Ok(None))
    /\ UNCHANGED <<input, flags, driver_vars, channel_vars>>

\* the arm `_` of the loop of _next (line 362): an End outside an object, or
\* an event that is no element (text, comment, declaration)
other_event ==
    /\ pc = "loop"
    /\ read_event.type = "Text" \/ (read_event.type = "End" /\ ~obj_started)
    /\ pos' = pos_after
    /\ UNCHANGED <<input, flags, locals, pc, item, out, ended, driver_vars, channel_vars>>

reader_step ==
    \/ start_idle
    \/ start_in_object
    \/ end_in_object
    \/ eof
    \/ other_event

-----------------------------------------------------------------------------
(* The whole sequence a reader yields in the foreground: what a caller     *)
(* gets who calls next until it returns None, as a function of the events  *)
(* and of the three flags fl.  items are the Some(..) returned, in order;  *)
(* final is "end" when next returned None and "panic" when a call aborted. *)

\* do_skip = match nm { ... } (lines 322-327) with the flags fl
skip_flag_in(fl, nm) ==
    CASE nm = "node" -> fl[1]
      [] nm = "way" -> fl[2]
      [] nm = "relation" -> fl[3]
      [] OTHER -> FALSE

RECURSIVE iterate(_, _, _, _, _)
\* the loop of _next (lines 312-367) over the events left, with the locals
\* obj_started, do_skip and elements; a return starts the next call with
\* fresh locals (lines 306-310), until None (lines 428-434)
iterate(events, fl, started, skip, elts) ==
    IF events = <<>> THEN [items |-> <<>>, final |-> "end"]
    ELSE LET e == Head(events)
             rest == Tail(events)
             pushed == Append(elts, [name |-> e.name, attrs |-> e.attrs])
             returned(r) ==
                 IF r.tag = "Panic" THEN [items |-> <<>>, final |-> "panic"]
                 ELSE IF r.tag = "Ok" /\ r.val = None
                 THEN [items |-> <<>>, final |-> "end"]
                 ELSE LET more == iterate(rest, fl, FALSE, FALSE, <<>>)
                          it == IF r.tag = "Ok" THEN Ok(r.val[1]) ELSE r
                      IN  [items |-> <<it>> \o more.items, final |-> more.final]
         IN  CASE ~started /\ e.type \in {"Start", "Empty"} ->
                    IF e.name \in ChildNames THEN [items |-> <<>>, final |-> "panic"]
                    ELSE IF e.name \notin ObjectNames
                    THEN iterate(rest, fl, FALSE, FALSE, elts)
                    ELSE IF skip_flag_in(fl, e.name)
                    THEN iterate(rest, fl, e.type = "Start", TRUE, elts)
                    ELSE IF e.type = "Empty" THEN returned(process_elements(pushed))
                    ELSE iterate(rest, fl, TRUE, FALSE, pushed)
               [] started /\ e.type \in {"Start", "Empty"} ->
                    IF e.name \in ObjectNames THEN [items |-> <<>>, final |-> "panic"]
                    ELSE iterate(rest, fl, TRUE, skip, IF skip THEN elts ELSE pushed)
               [] started /\ e.type = "End" ->
                    IF skip THEN iterate(rest, fl, FALSE, FALSE, elts)
                    ELSE IF e.name \in ObjectNames THEN returned(process_elements(elts))
                    ELSE iterate(rest, fl, TRUE, skip, elts)
               [] OTHER -> iterate(rest, fl, started, skip, elts)

\* the sequence yielded by a reader with the flags fl over the events
foreground(events, fl) == iterate(events, fl, FALSE, FALSE, <<>>)

-----------------------------------------------------------------------------
(* The reader used as an Iterator, over every stream of the structural     *)
(* alphabet and every setting of the three flags: they are pub fields, and *)
(* every setting is also what some driver call leaves behind.              *)

Init ==
    /\ input \in SeqsUpTo(StructAlphabet, MaxEvents)
    /\ pos = 0
    /\ skip_nodes \in BOOLEAN /\ skip_ways \in BOOLEAN /\ skip_relations \in BOOLEAN
    /\ obj_started = FALSE /\ do_skip = FALSE /\ elements = <<>>
    /\ pc = "caller" /\ item = None /\ out = <<>> /\ ended = FALSE
    /\ no_driver("iter")

NextIter == next_call \/ reader_step

Spec == Init /\ [][NextIter]_vars

\* the reader as OsmXmlReader::new makes it, used as an Iterator
InitDoc ==
    /\ input \in SeqsUpTo(DocAlphabet, MaxDocEvents)
    /\ new_reader
    /\ no_driver("iter")

SpecDoc == InitDoc /\ [][NextIter]_vars

-----------------------------------------------------------------------------
(* The callback drivers map_nodes, map_ways and map_all.  A driver call     *)
(* borrows the reader (&mut self), so drivers may be called one after the   *)
(* other on the same reader; out, ended and calls are the history of the    *)
(* running call.  A callback is the caller's code: it returns Ok(()) or an  *)
(* error.                                                                   *)

unit == <<>>
CallbackResults == {Ok(unit), Err("callback failed")}

may_call_driver ==
    /\ driver # "iter"
    /\ dpc \in {"off", "returned"}
    /\ pc # "panic"
    /\ ncalls < MaxDriverCalls

\* the driver enters its `for ... in self.into_iter()` loop
enter_for(d) ==
    /\ driver' = d /\ dpc' = "for" /\ ncalls' = ncalls + 1
    /\ pc' = "caller" /\ item' = None /\ ret' = None
    /\ out' = <<>> /\ ended' = FALSE /\ calls' = <<>>
    /\ UNCHANGED <<input, pos, locals, channel_vars>>

\* map_nodes up to its loop (lines 370-374)
map_nodes_call ==
    /\ may_call_driver
    /\ skip_ways' = TRUE /\ skip_relations' = TRUE
    /\ UNCHANGED <<skip_nodes, node_cb, way_cb, rel_cb>>
    /\ enter_for("map_nodes")

\* map_ways up to its loop (lines 380-384)
map_ways_call ==
    /\ may_call_driver
    /\ skip_relations' = TRUE /\ skip_nodes' = TRUE
    /\ UNCHANGED <<skip_ways, node_cb, way_cb, rel_cb>>
    /\ enter_for("map_ways")

\* the flags with the way flag taken from the node callback
map_all_flags_pasted(n, w, r) == <<~n, ~n, ~r>>

\* self.skip_nodes = node_cb.is_none(); ... (lines 409-411)
map_all_flags(n, w, r) == <<~n, ~w, ~r>>

\* map_all up to its loop (lines 403-415), with each callback Some or None
map_all_call ==
    /\ may_call_driver
    /\ \E n \in BOOLEAN, w \in BOOLEAN, r \in BOOLEAN :
          /\ node_cb' = n /\ way_cb' = w /\ rel_cb' = r
          /\ skip_nodes' = map_all_flags(n, w, r)[1]
          /\ skip_ways' = map_all_flags(n, w, r)[2]
          /\ skip_relations' = map_all_flags(n, w, r)[3]
    /\ enter_for("map_all")

\* the driver returns r
driver_return(r) == dpc' = "returned" /\ ret' = Some(r) /\ pc' = "caller"

\* the loop goes on to its next iteration
driver_continue == pc' = "caller" /\ UNCHANGED <<dpc, ret>>

\* the error item passed over, the loop going on
try_failed_ignored(e) == driver_continue /\ calls' = calls

\* `res?` on an Err item (lines 375, 385, 416): the driver returns the error
try_failed(e) == driver_return(e) /\ calls' = calls

\* `cb(n)?` (lines 375, 385, 417-419): the callback runs, its error returns
invoke(cb, arg) ==
    \E r \in CallbackResults :
        /\ calls' = Append(calls, [cb |-> cb, arg |-> arg, result |-> r])
        /\ IF r.tag = "Ok" THEN driver_continue ELSE driver_return(r)

\* one iteration of the loop of map_nodes, and its Ok(()) after the loop
map_nodes_body ==
    /\ driver = "map_nodes" /\ dpc = "for" /\ pc = "ret"
    /\ IF item = None THEN driver_return(Ok(unit)) /\ calls' = calls
       ELSE IF item[1].tag = "Err" THEN try_failed(item[1])
       ELSE IF item[1].val.kind = "Node" THEN invoke("node", item[1].val)
       ELSE driver_continue /\ calls' = calls
    /\ UNCHANGED <<input, pos, flags, locals, item, out, ended, driver, node_cb,
                   way_cb, rel_cb, ncalls, channel_vars>>

\* one iteration of the loop of map_ways, and its Ok(()) after the loop
map_ways_body ==
    /\ driver = "map_ways" /\ dpc = "for" /\ pc = "ret"
    /\ IF item = None THEN driver_return(Ok(unit)) /\ calls' = calls
       ELSE IF item[1].tag = "Err" THEN try_failed(item[1])
       ELSE IF item[1].val.kind = "Way" THEN invoke("way", item[1].val)
       ELSE driver_continue /\ calls' = calls
    /\ UNCHANGED <<input, pos, flags, locals, item, out, ended, driver, node_cb,
                   way_cb, rel_cb, ncalls, channel_vars>>

\* one iteration of the loop of map_all, and its Ok(()) after the loop
map_all_body ==
    /\ driver = "map_all" /\ dpc = "for" /\ pc = "ret"
    /\ IF item = None THEN driver_return(Ok(unit)) /\ calls' = calls
       ELSE IF item[1].tag = "Err" THEN try_failed(item[1])
       ELSE IF item[1].val.kind = "Node" /\ node_cb THEN invoke("node", item[1].val)
       ELSE IF item[1].val.kind = "Way" /\ way_cb THEN invoke("way", item[1].val)
       ELSE IF item[1].val.kind = "Relation" /\ rel_cb
       THEN invoke("relation", item[1].val)
       ELSE driver_continue /\ calls' = calls
    /\ UNCHANGED <<input, pos, flags, locals, item, out, ended, driver, node_cb,
                   way_cb, rel_cb, ncalls, channel_vars>>

\* the events of the documents given to the drivers: a self-closing object of
\* each kind, a node that cannot be built, and a way opened and closed
DriverAlphabet ==
    { Empty("node", GoodNodeAttrs), Empty("node", <<IdAttr("1")>>),
      Empty("way", <<IdAttr("5")>>), Empty("relation", <<IdAttr("9")>>),
      Start("way", <<IdAttr("5")>>), End("way") }

InitDriver ==
    /\ input \in SeqsUpTo(DriverAlphabet, MaxDriverEvents)
    /\ new_reader
    /\ no_driver("none")

NextDriver ==
    \/ map_nodes_call
    \/ map_ways_call
    \/ map_all_call
    \/ next_call
    \/ reader_step
    \/ map_nodes_body
    \/ map_ways_body
    \/ map_all_body

SpecDriver == InitDriver /\ [][NextDriver]_vars

-----------------------------------------------------------------------------
(* The background pipeline in_background.  The spawned thread owns the      *)
(* reader and the Sender; the caller owns the receiving iterator.  dpc is   *)
(* the position of the thread ("for": in its loop; "returned": the closure  *)
(* has returned ret).  A panic!() in the thread (pc = "panic") unwinds the  *)
(* thread only, as a build without a panic setting does: the caller's       *)
(* thread goes on.  The channel is crossbeam's bounded channel: send        *)
(* blocks while the channel is full, fails once the Receiver is dropped;    *)
(* recv takes the oldest message, blocks while the channel is empty and a   *)
(* Sender exists, fails once it is empty and the Sender is dropped.         *)

\* bounded(5)
Capacity == 5

\* the Sender lives in the closure of the thread: it is dropped when the
\* closure returns (lines 395, 397) and when the thread unwinds
sender_dropped == dpc = "returned" \/ pc = "panic"

\* in_background up to the return of rec.into_iter() (lines 390-400)
in_background_call ==
    /\ driver = "none" /\ dpc = "off" /\ pc = "caller"
    /\ driver' = "in_background" /\ dpc' = "for"
    /\ queue' = <<>> /\ received' = <<>> /\ rec_state' = "open"
    /\ UNCHANGED <<input, pos, flags, locals, pc, item, out, ended, node_cb, way_cb,
                   rel_cb, calls, ret, ncalls>>

\* a producer whose send, waiting on a full channel, is not woken when the
\* Receiver is dropped
producer_body_waits_on_full ==
    /\ driver = "in_background" /\ dpc = "for" /\ pc = "ret"
    /\ IF item = None THEN driver_return(Ok(unit)) /\ queue' = queue
       ELSE /\ Len(queue) < Capacity
            /\ IF rec_state = "dropped"
               THEN driver_return(Err("SendError")) /\ queue' = queue
               ELSE queue' = Append(queue, item[1]) /\ driver_continue
    /\ UNCHANGED <<input, pos, flags, locals, item, out, ended, driver, node_cb,
                   way_cb, rel_cb, calls, ncalls, received, rec_state>>

\* a producer that sends the objects only and passes over the error items
producer_body_skips_errors ==
    /\ driver = "in_background" /\ dpc = "for" /\ pc = "ret"
    /\ IF item = None THEN driver_return(Ok(unit)) /\ queue' = queue
       ELSE IF item[1].tag = "Err" THEN driver_continue /\ queue' = queue
       ELSE IF rec_state = "dropped"
       THEN driver_return(Err("SendError")) /\ queue' = queue
       ELSE /\ Len(queue) < Capacity
            /\ queue' = Append(queue, item[1])
            /\ driver_continue
    /\ UNCHANGED <<input, pos, flags, locals, item, out, ended, driver, node_cb,
                   way_cb, rel_cb, calls, ncalls, received, rec_state>>

\* a producer that returns once it has sent an error item
producer_body_stops_on_error ==
    /\ driver = "in_background" /\ dpc = "for" /\ pc = "ret"
    /\ IF item = None THEN driver_return(Ok(unit)) /\ queue' = queue
       ELSE IF rec_state = "dropped"
       THEN driver_return(Err("SendError")) /\ queue' = queue
       ELSE /\ Len(queue) < Capacity
            /\ queue' = Append(queue, item[1])
            /\ IF item[1].tag = "Err" THEN driver_return(Ok(unit)) ELSE driver_continue
    /\ UNCHANGED <<input, pos, flags, locals, item, out, ended, driver, node_cb,
                   way_cb, rel_cb, calls, ncalls, received, rec_state>>

\* one iteration of the loop of the thread: snd.send(Arc::new(obj))? (line
\* 395), and drop(snd); Ok(()) after the loop (lines 397-398)
producer_body ==
    /\ driver = "in_background" /\ dpc = "for" /\ pc = "ret"
    /\ IF item = None THEN driver_return(Ok(unit)) /\ queue' = queue
       ELSE IF rec_state = "dropped"
       THEN driver_return(Err("SendError")) /\ queue' = queue
       ELSE /\ Len(queue) < Capacity
            /\ queue' = Append(queue, item[1])
            /\ driver_continue
    /\ UNCHANGED <<input, pos, flags, locals, item, out, ended, driver, node_cb,
                   way_cb, rel_cb, calls, ncalls, received, rec_state>>

\* next of the receiving iterator, a message being in the channel
consumer_recv ==
    /\ rec_state = "open" /\ queue # <<>>
    /\ received' = Append(received, Head(queue))
    /\ queue' = Tail(queue)
    /\ UNCHANGED <<input, pos, flags, locals, pc, item, out, ended, driver_vars,
                   rec_state>>

\* next of the receiving iterator, the channel being empty and disconnected:
\* recv fails and the iterator yields None
consumer_end ==
    /\ rec_state = "open" /\ queue = <<>> /\ sender_dropped
    /\ rec_state' = "ended"
    /\ UNCHANGED <<input, pos, flags, locals, pc, item, out, ended, driver_vars,
                   queue, received>>

\* the caller drops the receiving iterator, and with it the Receiver
consumer_drop ==
    /\ rec_state = "open"
    /\ rec_state' = "dropped"
    /\ UNCHANGED <<input, pos, flags, locals, pc, item, out, ended, driver_vars,
                   queue, received>>

\* what the documents given to the pipeline are made of: a way, a node
\* that cannot be built, and what may follow the objects: nothing, a tag
\* outside any object, or a way with text and a tag inside
PipeItems == { Empty("way", <<>>), Empty("node", <<>>) }

WayTail ==
    <<Start("way", <<IdAttr("5")>>), Text, Empty("tag", TagAttrs("a", "b")), End("way")>>

PipeTails == { <<>>, <<Empty("tag", TagAttrs("a", "b"))>>, WayTail }

\* the reader given to in_background: nothing read; the way flag, a pub
\* field, set or not when the document has a way
InitPipe ==
    /\ \E objects \in SeqsUpTo(PipeItems, MaxPipeItems), tail \in PipeTails :
           /\ input = objects \o tail
           /\ skip_ways \in {FALSE, tail = WayTail}
    /\ pos = 0
    /\ skip_nodes = FALSE /\ skip_relations = FALSE
    /\ obj_started = FALSE /\ do_skip = FALSE /\ elements = <<>>
    /\ pc = "caller" /\ item = None /\ out = <<>> /\ ended = FALSE
    /\ no_driver("none")

producer_step == next_call \/ reader_step \/ producer_body

consumer_receives == consumer_recv \/ consumer_end

NextPipe ==
    \/ in_background_call
    \/ producer_step
    \/ consumer_receives
    \/ consumer_drop

SpecPipe == InitPipe /\ [][NextPipe]_vars

\* the two threads are scheduled: the producer thread runs while it is not
\* blocked; a caller that keeps its iterator keeps calling next on it
SpecPipeFair ==
    /\ SpecPipe
    /\ WF_vars(in_background_call)
    /\ WF_vars(producer_step)
    /\ WF_vars(consumer_receives)

-----------------------------------------------------------------------------
(* The builder: a new reader over one object of any kind, opened and       *)
(* closed, with every sequence of children of the alphabet below.          *)

\* nd with a ref (one of them twice as long, one that is no number) and
\* without; tags that repeat a key, and tags lacking k or v; a member; text
ChildAlphabet ==
    { Empty("nd", NdAttrs(<<"1">>)), Empty("nd", NdAttrs(<<"1", "2">>)),
      Empty("nd", NdAttrs(<<"x">>)), Empty("nd", <<>>),
      Empty("tag", TagAttrs("a", "b")), Empty("tag", TagAttrs("a", "c")),
      Empty("tag", TagAttrs("b", "b")), Empty("tag", <<<<"k", <<"a">>>>>>),
      Empty("tag", <<<<"v", <<"c">>>>>>),
      Empty("member", MemberAttrs),
      Text }

Openers == { Start("node", GoodNodeAttrs), Start("way", <<IdAttr("5")>>),
             Start("relation", <<IdAttr("9")>>) }

InitBuild ==
    /\ \E o \in Openers, children \in SeqsUpTo(ChildAlphabet, MaxChildren) :
           input = <<o>> \o children \o <<End(o.name)>>
    /\ new_reader
    /\ no_driver("iter")

SpecBuild == InitBuild /\ [][NextIter]_vars

-----------------------------------------------------------------------------
(* The nodes: a reader, skipping nodes or not, over streams of nodes whose  *)
(* lon and lat are written, missing, or no number, in both forms.           *)

LatAttr(v) == <<"lat", v>>
LonAttr(v) == <<"lon", v>>

NodeAlphabet ==
    { Empty("node", GoodNodeAttrs),
      Empty("node", <<IdAttr("1")>>),
      Empty("node", <<IdAttr("1"), LatAttr(<<"1", ".", "0">>)>>),
      Empty("node", <<IdAttr("1"), LonAttr(<<"2", ".", "0">>)>>),
      Empty("node", <<IdAttr("1"), LatAttr(<<"1", ".", "0">>), LonAttr(<<"x">>)>>),
      Empty("node", <<IdAttr("1"), LatAttr(<<"x">>), LonAttr(<<"2", ".", "0">>)>>),
      Start("node", GoodNodeAttrs),
      Start("node", <<IdAttr("1")>>),
      Start("node", <<IdAttr("1"), LatAttr(<<"x">>), LonAttr(<<"2", ".", "0">>)>>),
      End("node"), Empty("tag", TagAttrs("a", "b")), Text }

InitNode ==
    /\ input \in SeqsUpTo(NodeAlphabet, MaxNodeEvents)
    /\ pos = 0
    /\ skip_nodes \in BOOLEAN /\ skip_ways = FALSE /\ skip_relations = FALSE
    /\ obj_started = FALSE /\ do_skip = FALSE /\ elements = <<>>
    /\ pc = "caller" /\ item = None /\ out = <<>> /\ ended = FALSE
    /\ no_driver("iter")

SpecNode == InitNode /\ [][NextIter]_vars

-----------------------------------------------------------------------------
(* The members: a new reader over one relation (or one way), opened and    *)
(* closed, with every sequence of children of the alphabet below.          *)

MemberWith(t, r, role) == <<<<"type", t>>, <<"ref", r>>, <<"role", role>>>>

\* members that can be built, members lacking type, ref or role, a member
\* whose type is no kind of object, a member whose ref is no number, a tag
MemberAlphabet ==
    { Empty("member", MemberAttrs),
      Empty("member", MemberWith(<<"n", "o", "d", "e">>, <<"1">>, <<"i", "n">>)),
      Empty("member", <<<<"ref", <<"5">>>>, <<"role", <<"i", "n">>>>>>),
      Empty("member", <<<<"type", <<"w", "a", "y">>>>, <<"role", <<"i", "n">>>>>>),
      Empty("member", <<<<"type", <<"w", "a", "y">>>>, <<"ref", <<"5">>>>>>),
      Empty("member", MemberWith(<<"x">>, <<"5">>, <<"i", "n">>)),
      Empty("member", MemberWith(<<"w", "a", "y">>, <<"x">>, <<"i", "n">>)),
      Empty("tag", TagAttrs("a", "b")),
      Text }

InitMember ==
    /\ \E o \in {Start("relation", <<IdAttr("9")>>), Start("way", <<IdAttr("5")>>)},
          children \in SeqsUpTo(MemberAlphabet, MaxMembers) :
           input = <<o>> \o children \o <<End(o.name)>>
    /\ new_reader
    /\ no_driver("iter")

SpecMember == InitMember /\ [][NextIter]_vars

-----------------------------------------------------------------------------
(* Notions of the document, used to state the properties.                  *)

RECURSIVE SortedSeq(_)
\* the elements of a set of numbers, ascending
SortedSeq(S) ==
    IF S = {} THEN <<>>
    ELSE LET m == CHOOSE x \in S : \A y \in S : x <= y
         IN  <<m>> \o SortedSeq(S \ {m})

IsOpening(e) == e.type \in {"Start", "Empty"}

RECURSIVE NestsWell(_, _)
\* the events nest as XML does, no object lies inside another and every child
\* lies inside an object; stack holds the names of the open elements
NestsWell(events, stack) ==
    IF events = <<>> THEN stack = <<>>
    ELSE LET e == Head(events)
             in_object == \E i \in 1..Len(stack) : stack[i] \in ObjectNames
         IN  CASE IsOpening(e) ->
                    /\ e.name \in ObjectNames => ~in_object
                    /\ e.name \in ChildNames => in_object
                    /\ NestsWell(Tail(events),
                                 IF e.type = "Start" THEN Append(stack, e.name) ELSE stack)
               [] e.type = "End" ->
                    /\ stack # <<>>
                    /\ stack[Len(stack)] = e.name
                    /\ NestsWell(Tail(events), SubSeq(stack, 1, Len(stack) - 1))
               [] OTHER -> NestsWell(Tail(events), stack)

WellFormed == NestsWell(input, <<>>)

\* the positions of the events that close an object: its End, or its own Empty
Closers(upto) ==
    SortedSeq({i \in 1..upto : /\ input[i].name \in ObjectNames
                               /\ input[i].type \in {"End", "Empty"}})

\* in a well-formed document, the elements of the object closed at position j
GroupClosedAt(j) ==
    LET opens == {i \in 1..j : IsOpening(input[i]) /\ input[i].name \in ObjectNames}
        first == CHOOSE i \in opens : \A k \in opens : k <= i
        inside == SortedSeq({i \in first..j : IsOpening(input[i])})
    IN  [i \in 1..Len(inside) |-> [name |-> input[inside[i]].name,
                                   attrs |-> input[inside[i]].attrs]]

Buildable ==
    \A i \in 1..Len(Closers(Len(input))) :
        process_elements(GroupClosedAt(Closers(Len(input))[i])).tag = "Ok"

KindOfName(nm) ==
    CASE nm = "node" -> "Node" [] nm = "way" -> "Way" [] nm = "relation" -> "Relation"

NameOfKind(kind) ==
    CASE kind = "Node" -> "node" [] kind = "Way" -> "way" [] kind = "Relation" -> "relation"

\* the flag of a kind of object
FlagOfKind(kind) ==
    CASE kind = "Node" -> skip_nodes [] kind = "Way" -> skip_ways
      [] kind = "Relation" -> skip_relations

NoFlagSet == ~skip_nodes /\ ~skip_ways /\ ~skip_relations

OutKinds == [i \in 1..Len(out) |-> out[i].item.val.kind]

Range(f) == {f[i] : i \in DOMAIN f}

\* nothing runs after a panic
AbortIsFinal == pc # "panic"

-----------------------------------------------------------------------------
(* C1.  With the three flags false and a well-formed document whose objects *)
(* can all be built, the items next has returned are, at every moment,      *)
(* exactly the objects closed among the events read so far: one Ok item per *)
(* closing event (End, or the object's own Empty), returned by the call     *)
(* that read it, of the kind of that object, in document order; nothing     *)
(* aborts, and None is returned only when the whole document was read, so   *)
(* the N + M + K objects are returned once each.                            *)

C1_EmittedOnceAtClose ==
    (NoFlagSet /\ WellFormed /\ Buildable) =>
        LET closed == Closers(pos)
        IN  /\ Len(out) = Len(closed)
            /\ \A i \in 1..Len(out) :
                   /\ out[i].at = closed[i]
                   /\ out[i].item.tag = "Ok"
                   /\ out[i].item.val.kind = KindOfName(input[closed[i]].name)
            /\ pc # "panic"
            /\ ended => pos = Len(input)

C1_Witness ==
    /\ NoFlagSet /\ WellFormed /\ Buildable /\ ended
    /\ Len(out) = 2
    /\ input[out[1].at].type = "Empty"
    /\ input[out[2].at].type = "End"
    /\ out[1].item.val.kind # out[2].item.val.kind

-----------------------------------------------------------------------------
(* C2.  For any event stream: an object of a kind whose flag is set is      *)
(* never returned; while the assembler is inside a skipped object the       *)
(* buffer is empty; and every item returned, object or error, was built     *)
(* from a buffer opened by an object whose flag is clear, so the builder    *)
(* never runs for a skipped object.                                         *)

C2_SkippedNotEmitted ==
    \A i \in 1..Len(out) :
        out[i].item.tag = "Ok" => ~FlagOfKind(out[i].item.val.kind)

C2_SkippedNotBuffered == (obj_started /\ do_skip) => elements = <<>>

C2_SkippedNotBuilt ==
    (out' # out) =>
        LET opening == IF obj_started THEN elements[1].name ELSE read_event.name
        IN  opening \in ObjectNames /\ ~FlagOfKind(KindOfName(opening))

C2_Skip ==
    /\ []C2_SkippedNotEmitted
    /\ []C2_SkippedNotBuffered
    /\ [][C2_SkippedNotBuilt]_vars

\* a skipped node without lon and lat went by: no item for it, and a way was
\* returned by the same reader
C2_Witness ==
    /\ skip_nodes /\ ~skip_ways /\ ended
    /\ \E i \in 1..Len(input) : input[i] = Empty("node", <<IdAttr("1")>>)
    /\ Len(out) = 1 /\ out[1].item.tag = "Ok" /\ out[1].item.val.kind = "Way"

-----------------------------------------------------------------------------
(* C6.  When the assembler is outside any object and reads an opening or    *)
(* empty nd, tag or member, the process aborts on that event: no item is    *)
(* returned for it and nothing is read afterwards.  A buffered nd, tag or   *)
(* member is never the first element of the buffer, which belongs to an     *)
(* open object.                                                             *)

C6_ChildOutsideAborts ==
    (pc = "loop" /\ ~obj_started /\ IsOpening(read_event)
       /\ read_event.name \in ChildNames)
    => (pc' = "panic" /\ out' = out /\ item' = item /\ ended' = ended)

C6_ChildBufferedInObject ==
    \A i \in 1..Len(elements) :
        elements[i].name \in ChildNames =>
            (obj_started /\ i > 1 /\ elements[1].name \in ObjectNames)

C6_ChildOutside ==
    /\ [][C6_ChildOutsideAborts]_vars
    /\ [][AbortIsFinal]_vars
    /\ []C6_ChildBufferedInObject

\* aborted on a child read outside any object, after an object was returned
C6_Witness ==
    /\ pc = "panic" /\ ~obj_started /\ Len(out) = 1
    /\ input[pos].name \in ChildNames

-----------------------------------------------------------------------------
(* C7.  When the assembler is inside an object, skipped or not, and reads   *)
(* an opening or empty node, way or relation, the process aborts on that    *)
(* event: neither the outer nor the inner object is returned.               *)

C7_NestedAborts ==
    (pc = "loop" /\ obj_started /\ IsOpening(read_event)
       /\ read_event.name \in ObjectNames)
    => (pc' = "panic" /\ out' = out /\ item' = item /\ ended' = ended)

-----------------------------------------------------------------------------
(* C8.  When the loop reads the end of input, in whatever assembler state,  *)
(* next returns None: no item is added, no error is returned and nothing    *)
(* aborts; an object still open is dropped.                                 *)

C8_EofReturnsNone ==
    (pc = "loop" /\ read_event.type = "Eof")
    => (pc' = "ret" /\ item' = None /\ ended' /\ out' = out)

C8_Eof == [][C8_EofReturnsNone]_vars

\* the input ended inside a way that was not skipped and had a child
\* buffered: None, and no item
C8_Witness ==
    /\ ended /\ item = None /\ out = <<>> /\ ~skip_ways
    /\ input = <<Start("way", <<IdAttr("5")>>), Empty("tag", TagAttrs("a", "b"))>>

-----------------------------------------------------------------------------
(* Attributes as the document writes them (no key is written twice in an   *)
(* element of the model).                                                  *)

HasAttr(elt, key) == \E i \in 1..Len(elt.attrs) : elt.attrs[i][1] = key
AttrOf(elt, key) == elt.attrs[CHOOSE i \in 1..Len(elt.attrs) : elt.attrs[i][1] = key][2]

\* the subsequence of q of the elements satisfying the test given as a set
RECURSIVE Filter(_, _)
Filter(q, keep) ==
    IF q = <<>> THEN <<>>
    ELSE IF Head(q) \in keep THEN <<Head(q)>> \o Filter(Tail(q), keep)
    ELSE Filter(Tail(q), keep)

\* the numbers the ref literals of the model denote
LiteralValue(s) ==
    CASE s = <<"1">> -> 1 [] s = <<"1", "2">> -> 12 [] s = <<"5">> -> 5

IsLiteral(s) == s \in {<<"1">>, <<"1", "2">>, <<"5">>}

\* the nd children, carrying a ref, of the object closed at position j
NdWithRef(j) ==
    LET group == GroupClosedAt(j)
    IN  Filter(Tail(group), {e \in Range(group) : e.name = "nd" /\ HasAttr(e, "ref")})

\* the tag children, carrying k and v, of the object closed at position j
TagWithKV(j) ==
    LET group == GroupClosedAt(j)
    IN  Filter(Tail(group),
               {e \in Range(group) : e.name = "tag" /\ HasAttr(e, "k") /\ HasAttr(e, "v")})

-----------------------------------------------------------------------------
(* C9.  The node list of every Way returned is the sequence of the numbers  *)
(* written in the ref attributes of its nd children that have one, in       *)
(* document order, repeated refs kept; and a way whose nd children either   *)
(* have no ref or a ref that is a number is returned, not an error: an nd   *)
(* without ref adds nothing and fails nothing.                              *)

C9_WayNodes ==
    /\ \A i \in 1..Len(out) :
          (out[i].item.tag = "Ok" /\ out[i].item.val.kind = "Way") =>
              LET nds == NdWithRef(out[i].at)
              IN  /\ Len(out[i].item.val.nodes) = Len(nds)
                  /\ \A n \in 1..Len(nds) :
                         out[i].item.val.nodes[n] = LiteralValue(AttrOf(nds[n], "ref"))
    /\ (ended /\ input[1].name = "way"
          /\ \A n \in 1..Len(NdWithRef(Len(input))) :
                 IsLiteral(AttrOf(NdWithRef(Len(input))[n], "ref")))
       => (Len(out) = 1 /\ out[1].item.tag = "Ok" /\ out[1].item.val.kind = "Way")

\* a way with the same ref twice around an nd without ref
C9_Witness ==
    /\ ended /\ Len(out) = 1 /\ out[1].item.tag = "Ok"
    /\ out[1].item.val.kind = "Way"
    /\ out[1].item.val.nodes = <<12, 12>>
    /\ input[3] = Empty("nd", <<>>)

-----------------------------------------------------------------------------
(* C10.  The tags of every object returned map exactly the keys written in  *)
(* its tag children that have both k and v, each to the v of the last such  *)
(* child in document order; a tag child lacking k or v adds nothing.        *)

C10_TagsLastWins ==
    \A i \in 1..Len(out) :
        out[i].item.tag = "Ok" =>
            LET tgs == TagWithKV(out[i].at)
                tags == out[i].item.val.tags
            IN  /\ DOMAIN tags = {AttrOf(tgs[n], "k") : n \in 1..Len(tgs)}
                /\ \A n \in 1..Len(tgs) :
                       (\A m \in (n + 1)..Len(tgs) : AttrOf(tgs[m], "k") # AttrOf(tgs[n], "k"))
                       => tags[AttrOf(tgs[n], "k")] = AttrOf(tgs[n], "v")

\* an object returned with a key written twice, and a tag without v between
C10_Witness ==
    /\ ended /\ Len(out) = 1 /\ out[1].item.tag = "Ok"
    /\ input[2] = Empty("tag", TagAttrs("a", "b"))
    /\ input[3] = Empty("tag", <<<<"k", <<"a">>>>>>)
    /\ input[4] = Empty("tag", TagAttrs("a", "c"))
    /\ out[1].item.val.tags[<<"a">>] = <<"c">>

-----------------------------------------------------------------------------
(* C3.  While map_nodes iterates, skip_nodes is false and skip_ways and     *)
(* skip_relations are true; while map_ways iterates, skip_ways is false and *)
(* skip_nodes and skip_relations are true; whatever the flags were before   *)
(* the call.                                                                *)

C3_PerKindFlags ==
    /\ (driver = "map_nodes" /\ dpc = "for")
       => (~skip_nodes /\ skip_ways /\ skip_relations)
    /\ (driver = "map_ways" /\ dpc = "for")
       => (~skip_ways /\ skip_nodes /\ skip_relations)

-----------------------------------------------------------------------------
(* C4.  While map_all iterates, whatever the flags were before the call,    *)
(* each flag is true exactly when the callback of its kind is None; and the *)
(* callbacks invoked are, in order, one per object returned by next, each   *)
(* the callback of the object's own kind, which is Some, with that object   *)
(* as its argument; only the object just returned may still be waiting.     *)

OkItems == Filter(out, {x \in Range(out) : x.item.tag = "Ok"})

CallbackOfKind(kind) ==
    CASE kind = "Node" -> "node" [] kind = "Way" -> "way" [] kind = "Relation" -> "relation"

CallbackIsSome(cb) ==
    CASE cb = "node" -> node_cb [] cb = "way" -> way_cb [] cb = "relation" -> rel_cb

C4_MapAllFlagsAndDispatch ==
    driver = "map_all" =>
        /\ skip_nodes = ~node_cb /\ skip_ways = ~way_cb /\ skip_relations = ~rel_cb
        /\ Len(calls) <= Len(OkItems)
        /\ Len(OkItems) <= Len(calls) + 1
        /\ Len(OkItems) = Len(calls) + 1
           => (pc = "ret" /\ dpc = "for" /\ out[Len(out)].item.tag = "Ok")
        /\ \A j \in 1..Len(calls) :
               /\ calls[j].arg = OkItems[j].item.val
               /\ calls[j].cb = CallbackOfKind(calls[j].arg.kind)
               /\ CallbackIsSome(calls[j].cb)

\* the second driver call on a reader whose flags the first call left
\* otherwise: map_all with only the way callback has been given a way
C4_Witness ==
    /\ driver = "map_all" /\ ncalls = 2 /\ pos > 1
    /\ ~node_cb /\ way_cb /\ ~rel_cb
    /\ Len(calls) = 1 /\ calls[1].cb = "way"

-----------------------------------------------------------------------------
(* C5.  Every driver is fail-fast.  While it iterates no callback has       *)
(* failed and the only error item is the one next has just returned.  When  *)
(* it has returned an error, that error is the last thing that happened:    *)
(* either the last item, an error item, with no callback run for it, or the *)
(* result of the last callback, run on the last item; no event was read     *)
(* after that item and no earlier item or callback had failed.  When it has *)
(* returned Ok(()), next had returned None and nothing had failed.          *)

ErrItems == {i \in 1..Len(out) : out[i].item.tag = "Err"}
ErrCalls == {j \in 1..Len(calls) : calls[j].result.tag = "Err"}

C5_FailFast ==
    /\ dpc = "for" =>
          /\ ErrCalls = {}
          /\ ErrItems \subseteq {Len(out)}
          /\ ErrItems # {} => (pc = "ret" /\ item = Some(out[Len(out)].item))
    /\ (dpc = "returned" /\ ret[1].tag = "Ok") =>
          /\ ended /\ item = None
          /\ ErrItems = {} /\ ErrCalls = {}
    /\ (dpc = "returned" /\ ret[1].tag = "Err") =>
          /\ ~ended /\ out # <<>>
          /\ pos = out[Len(out)].at
          /\ IF out[Len(out)].item.tag = "Err"
             THEN /\ ret[1] = out[Len(out)].item
                  /\ ErrItems = {Len(out)} /\ ErrCalls = {}
                  /\ Len(calls) = Len(OkItems)
             ELSE /\ calls # <<>>
                  /\ ret[1] = calls[Len(calls)].result
                  /\ calls[Len(calls)].arg = out[Len(out)].item.val
                  /\ ErrItems = {} /\ ErrCalls = {Len(calls)}

\* a driver returned the error of an item while events of the document were
\* still unread, after a callback had succeeded
C5_Witness ==
    /\ dpc = "returned" /\ ret[1].tag = "Err"
    /\ out[Len(out)].item.tag = "Err"
    /\ pos < Len(input) /\ Len(calls) = 1

-----------------------------------------------------------------------------
(* C11.  When the call of next reads the event that closes a node that is   *)
(* not skipped (its own Empty event, or the End of the node) and the lon or *)
(* the lat of the node is missing or is no number, that call returns one    *)
(* error item, added to the items at that event; when both are missing it   *)
(* is the error "node has no longitude".  No object returned was opened by  *)
(* such an element.                                                         *)

IsFloatLiteral(s) == s \in {<<"1", ".", "0">>, <<"2", ".", "0">>}

BadCoordinate(elt, key) == ~HasAttr(elt, key) \/ ~IsFloatLiteral(AttrOf(elt, key))

\* the position of the last opening of an object among the first j events
LastOpening(j) ==
    CHOOSE i \in 1..j :
        /\ IsOpening(input[i]) /\ input[i].name \in ObjectNames
        /\ \A k \in (i + 1)..j : ~(IsOpening(input[k]) /\ input[k].name \in ObjectNames)

C11_BadNodeIsOneError ==
    LET closing_empty == ~obj_started /\ read_event.type = "Empty"
                         /\ read_event.name = "node"
        closing_end == obj_started /\ read_event.type = "End"
                       /\ read_event.name = "node"
        opening == IF obj_started THEN elements[1] ELSE read_event
    IN  (pc = "loop" /\ ~skip_nodes /\ (closing_empty \/ closing_end)
           /\ (BadCoordinate(opening, "lon") \/ BadCoordinate(opening, "lat")))
        => /\ pc' = "ret" /\ pos' = pos + 1
           /\ item' # None /\ item'[1].tag = "Err"
           /\ out' = Append(out, [item |-> item'[1], at |-> pos + 1])
           /\ (~HasAttr(opening, "lon") /\ ~HasAttr(opening, "lat"))
              => item'[1] = Err("node has no longitude")

C11_BadNodeNeverEmitted ==
    \A i \in 1..Len(out) :
        (out[i].item.tag = "Ok" /\ out[i].item.val.kind = "Node") =>
            LET opening == input[LastOpening(out[i].at)]
            IN  ~BadCoordinate(opening, "lon") /\ ~BadCoordinate(opening, "lat")

C11_NodeWithoutCoordinates ==
    /\ [][C11_BadNodeIsOneError]_vars
    /\ []C11_BadNodeNeverEmitted

\* a self-closing node with only an id gave the missing-longitude error at
\* its own event, then a node whose lat is no number gave an error at its End
C11_Witness ==
    /\ ~skip_nodes /\ Len(out) = 2
    /\ input[1] = Empty("node", <<IdAttr("1")>>) /\ out[1].at = 1
    /\ out[1].item = Err("node has no longitude")
    /\ input[2].type = "Start" /\ HasAttr(input[2], "lat")
    /\ out[2].item = ErrParseFloat /\ out[2].at = 3

-----------------------------------------------------------------------------
(* C12.  The members of a relation, as the document writes them.           *)

IsTypeLiteral(s) ==
    s \in {<<"n", "o", "d", "e">>, <<"w", "a", "y">>,
           <<"r", "e", "l", "a", "t", "i", "o", "n">>}

TypeOfLiteral(s) ==
    CASE s = <<"n", "o", "d", "e">> -> "Node" [] s = <<"w", "a", "y">> -> "Way"
      [] s = <<"r", "e", "l", "a", "t", "i", "o", "n">> -> "Relation"

\* the member children of the object closed at position j
MembersOf(j) ==
    LET group == GroupClosedAt(j)
    IN  Filter(Tail(group), {e \in Range(group) : e.name = "member"})

\* the member has type, ref and role, and its type is a kind of object
HasAllOfMember(e) ==
    /\ HasAttr(e, "type") /\ HasAttr(e, "ref") /\ HasAttr(e, "role")
    /\ IsTypeLiteral(AttrOf(e, "type"))

\* ... and its ref is a number
BuildableMember(e) == HasAllOfMember(e) /\ IsLiteral(AttrOf(e, "ref"))

MemberWritten(e) ==
    [mtype |-> TypeOfLiteral(AttrOf(e, "type")),
     mref |-> LiteralValue(AttrOf(e, "ref")),
     mrole |-> AttrOf(e, "role")]

\* the error of a member that cannot be built
ErrorOfMember(e) ==
    IF ~HasAttr(e, "type") THEN Err("member element has no 'type' attribute")
    ELSE IF ~IsTypeLiteral(AttrOf(e, "type")) THEN Err("object type is not node/way/relation")
    ELSE IF ~HasAttr(e, "ref") THEN Err("member element has no 'ref' attribute")
    ELSE IF ~IsLiteral(AttrOf(e, "ref")) THEN ErrParseInt
    ELSE Err("member element has no 'role' attribute")

RelationItems == {i \in 1..Len(out) : GroupClosedAt(out[i].at)[1].name = "relation"}

(* C12, as claimed.  For a relation that is not skipped: if a member child *)
(* lacks type, ref or role or has a type that is no kind of object, the     *)
(* one item returned for the relation is an error; otherwise it is the      *)
(* Relation, whose members are the member children in document order.       *)
C12_AsClaimed ==
    /\ pos = Len(input) => Len(out) = 1
    /\ \A i \in RelationItems :
          LET mem == MembersOf(out[i].at)
          IN  IF \E n \in 1..Len(mem) : ~HasAllOfMember(mem[n])
              THEN out[i].item.tag = "Err"
              ELSE /\ out[i].item.tag = "Ok" /\ out[i].item.val.kind = "Relation"
                   /\ Len(out[i].item.val.members) = Len(mem)

(* C12, amended.  A member child whose ref is no number fails the build as *)
(* well.  If a member child lacks type, ref or role, has a type that is no  *)
(* kind of object or a ref that is no number, the one item returned for the *)
(* relation is the error of the first such member (the missing attribute is *)
(* named; type is looked at first, then ref, then role) and no Relation is  *)
(* returned; otherwise the Relation is returned and its members are the     *)
(* member children, in document order.                                      *)
C12_Members ==
    /\ pos = Len(input) => Len(out) = 1
    /\ \A i \in RelationItems :
          LET mem == MembersOf(out[i].at)
              bad == {n \in 1..Len(mem) : ~BuildableMember(mem[n])}
          IN  IF bad # {}
              THEN out[i].item = ErrorOfMember(mem[CHOOSE n \in bad : \A k \in bad : n <= k])
              ELSE /\ out[i].item.tag = "Ok" /\ out[i].item.val.kind = "Relation"
                   /\ out[i].item.val.members = [n \in 1..Len(mem) |-> MemberWritten(mem[n])]

\* a relation whose second member has a ref that is no number and whose
\* third member has no role: the error of the second, and no Relation with
\* the member before it
C12_Witness ==
    /\ ended /\ Len(out) = 1
    /\ input[1].name = "relation" /\ Len(MembersOf(Len(input))) = 3
    /\ BuildableMember(input[2])
    /\ HasAllOfMember(input[3]) /\ ~BuildableMember(input[3])
    /\ ~HasAttr(input[4], "role")
    /\ out[1].item = ErrParseInt

-----------------------------------------------------------------------------
(* The items the calls of next have returned are, at every moment, the     *)
(* first items of the foreground sequence of the document; they are all of *)
(* it once None was returned or a call aborted.                            *)

ItemsOf(history) == [i \in 1..Len(history) |-> history[i].item]

IsPrefix(p, q) == Len(p) <= Len(q) /\ p = SubSeq(q, 1, Len(p))

OutIsForeground ==
    LET fg == foreground(input, <<skip_nodes, skip_ways, skip_relations>>)
    IN  /\ IsPrefix(ItemsOf(out), fg.items)
        /\ ended => (ItemsOf(out) = fg.items /\ fg.final = "end")
        /\ pc = "panic" => (ItemsOf(out) = fg.items /\ fg.final = "panic")

-----------------------------------------------------------------------------
(* C13.  For every document on which the foreground sequence runs to its   *)
(* end, and the same flags: at every moment of every interleaving of the   *)
(* producer thread and the caller, the items received, followed by the     *)
(* messages in the channel, are the first items of the foreground          *)
(* sequence, objects and error items alike, in the same order; and when    *)
(* the receiving iterator yields None the items received are the whole     *)
(* foreground sequence.                                                    *)

C13_BackgroundIsForeground ==
    LET fg == foreground(input, <<skip_nodes, skip_ways, skip_relations>>)
    IN  (driver = "in_background" /\ fg.final = "end") =>
            /\ IsPrefix(received \o queue, fg.items)
            /\ rec_state = "ended" => received = fg.items

\* the caller received six items through the channel, an object after an
\* error item among them, and then None
C13_Witness ==
    /\ rec_state = "ended" /\ Len(received) = 6 /\ ended
    /\ received[2].tag = "Err" /\ received[3].tag = "Ok"
    /\ received[6].tag = "Ok" /\ received[6].val.kind = "Way"

-----------------------------------------------------------------------------
(* C14.  In background mode, in every reachable state, the items that next *)
(* has returned in the producer thread and that the caller has not         *)
(* received are at most Capacity.                                          *)

Outstanding == Len(out) - Len(received)

C14_OutstandingAtMostCapacity ==
    driver = "in_background" => Outstanding <= Capacity

\* what the channel does bound: its own content; and the thread holds at
\* most one item more, the one it is sending
ChannelAtMostCapacity ==
    driver = "in_background" => (Len(queue) <= Capacity /\ Outstanding <= Capacity + 1)

-----------------------------------------------------------------------------
(* C15.  The items sent are those received and those in the channel.  The  *)
(* channel is closed by the producer when the Sender is dropped.           *)

Sent == received \o queue

ErrorSent == \E i \in 1..Len(Sent) : Sent[i].tag = "Err"

(* C15, as claimed.  The producer has closed the channel only if it has    *)
(* exhausted the stream or has forwarded an error item, and after an error *)
(* item no further item is sent: an error item is the last item sent.      *)
C15_AsClaimed ==
    driver = "in_background" =>
        /\ sender_dropped => (ended \/ ErrorSent)
        /\ \A i \in 1..Len(Sent) : Sent[i].tag = "Err" => i = Len(Sent)

\* the closure of the thread returns only at the end of the stream, with
\* Ok(()), or on a send that fails because the Receiver is dropped
C15_ReturnsOnlyAtEndOrFailedSend ==
    (dpc = "for" /\ dpc' = "returned") =>
        IF item = None THEN ended /\ ret' = Some(Ok(unit))
        ELSE rec_state = "dropped" /\ ret' = Some(Err("SendError"))

\* a send that succeeds, of an object or of an error item, leaves the
\* thread in its loop
C15_GoesOnAfterSend == (Len(queue') > Len(queue)) => dpc' = "for"

\* while the Receiver exists every item next returned is sent before the
\* next one is asked for; once the stream is exhausted and the closure has
\* returned, all of them are sent
C15_EveryItemSent ==
    (driver = "in_background" /\ rec_state # "dropped") =>
        /\ IsPrefix(Sent, ItemsOf(out))
        /\ Len(out) <= Len(Sent) + 1
        /\ (pc # "ret" \/ dpc = "returned") => Sent = ItemsOf(out)
        /\ rec_state = "ended" => (sender_dropped /\ received = ItemsOf(out))

(* C15, amended.  The producer closes the channel when and only when it    *)
(* has exhausted the stream (the closure returns Ok), a send has failed    *)
(* because the Receiver was dropped (it returns the error), or the thread  *)
(* has panicked.  An error item is sent like an object and the thread goes *)
(* on with the stream.  A caller that keeps receiving eventually gets      *)
(* None, after having received every item sent.                            *)
C15_Completion ==
    /\ [][C15_ReturnsOnlyAtEndOrFailedSend /\ C15_GoesOnAfterSend]_vars
    /\ []C15_EveryItemSent
    /\ (rec_state = "open") ~> (rec_state \in {"ended", "dropped"})

\* the closure has returned Ok(()) and the caller has received an error
\* item, an object after it, and None
C15_Witness ==
    /\ rec_state = "ended" /\ dpc = "returned" /\ ret = Some(Ok(unit))
    /\ Len(received) = 2 /\ received[1].tag = "Err" /\ received[2].tag = "Ok"

-----------------------------------------------------------------------------
(* C16.  Once the caller has dropped the receiving iterator: a send of the *)
(* producer, also one that was waiting on a full channel, is not blocked   *)
(* and fails; with it the closure of the thread returns the error, and     *)
(* nothing more is read from the stream after the thread has finished.     *)
(* With the thread scheduled, it finishes.                                 *)

AtSend == driver = "in_background" /\ dpc = "for" /\ pc = "ret" /\ item # None

C16_SendFails ==
    (AtSend /\ rec_state = "dropped") =>
        (dpc' = "returned" /\ ret' = Some(Err("SendError")) /\ pos' = pos
           /\ queue' = queue)

C16_NothingReadAfterReturn == (dpc = "returned") => (pos' = pos /\ out' = out)

C16_NeverBlocked == (AtSend /\ rec_state = "dropped") => ENABLED producer_body

C16_ProducerTerminates ==
    /\ [][C16_SendFails /\ C16_NothingReadAfterReturn]_vars
    /\ []C16_NeverBlocked
    /\ (rec_state = "dropped") ~> sender_dropped

\* the iterator was dropped with the channel full and the thread waiting in
\* send: the send has failed, the thread has finished, and events of the
\* document are still unread
C16_Witness ==
    /\ rec_state = "dropped" /\ dpc = "returned" /\ ret = Some(Err("SendError"))
    /\ Len(queue) = Capacity /\ Len(out) = Capacity + 1
    /\ pos < Len(input)

-----------------------------------------------------------------------------
(* C17.  After a call of next has aborted on a structural violation, in    *)
(* the foreground or in the producer thread, nothing goes on: the caller   *)
(* receives no further item and does not see the sequence end.             *)

C17_NothingAfterAbort ==
    (pc = "panic") =>
        (received' = received /\ rec_state' # "ended" /\ out' = out /\ item' = item)

C17_AbortStopsAll == [][C17_NothingAfterAbort]_vars

-----------------------------------------------------------------------------
(* C18.  While the assembler is inside a skipped object, it leaves that    *)
(* state only on the End of a node, way or relation, and then nothing is   *)
(* returned; any other event that is neither the end of input nor the      *)
(* opening of an object, in particular the End of a child, leaves it        *)
(* inside the skipped object.  Inside an object that is not skipped, the    *)
(* End of a node, way or relation returns what the builder makes of the     *)
(* buffer, and the assembler is outside any object again.                   *)

ObjectClose == read_event.type = "End" /\ read_event.name \in ObjectNames

C18_SkippedStaysUntilObjectClose ==
    (pc = "loop" /\ obj_started /\ do_skip) =>
        IF ObjectClose
        THEN ~obj_started' /\ pc' = "loop" /\ out' = out /\ item' = item
        ELSE (read_event.type # "Eof" /\ ~(IsOpening(read_event)
                                           /\ read_event.name \in ObjectNames))
             => (obj_started' /\ do_skip' /\ pc' = "loop")

C18_CloseBuildsAndReturns ==
    (pc = "loop" /\ obj_started /\ ~do_skip /\ ObjectClose) =>
        /\ pc' = "ret" /\ ~obj_started' /\ elements' = <<>>
        /\ out' = Append(out, [item |-> item'[1], at |-> pos + 1])
        /\ LET r == process_elements(elements)
           IN  item'[1] = IF r.tag = "Ok" THEN Ok(r.val[1]) ELSE r

C18_SkippedObjectClose ==
    [][C18_SkippedStaysUntilObjectClose /\ C18_CloseBuildsAndReturns]_vars

-----------------------------------------------------------------------------
(* C19.  A call of next that returns has returned one object, or one error *)
(* item, or None, and nothing is returned otherwise.  When it has returned *)
(* an error item, the event read last is the one that closes the object X  *)
(* the error is about (its End, or its own Empty event), and the locals of *)
(* the assembler are those of a new call: outside any object, the buffer   *)
(* empty.  The other items returned, before and after, are those of the    *)
(* document without the events of X, in the same order, and so is the way  *)
(* the sequence ends.                                                      *)

C19_OneOutcomePerCall ==
    IF pc = "loop" /\ pc' = "ret"
    THEN IF item' = None THEN ended' /\ out' = out
         ELSE /\ ended' = ended
              /\ out' = Append(out, [item |-> item'[1], at |-> pos'])
              /\ item'[1].tag \in {"Ok", "Err"}
    ELSE out' = out /\ ended' = ended

C19_IdleAfterError ==
    (pc = "ret" /\ item # None /\ item[1].tag = "Err") =>
        /\ ~obj_started /\ elements = <<>>
        /\ out # <<>> /\ out[Len(out)].at = pos
        /\ input[pos].name \in ObjectNames /\ input[pos].type \in {"End", "Empty"}

\* the document without the events of the object closed at position j
WithoutObjectClosedAt(j) ==
    SubSeq(input, 1, LastOpening(j) - 1) \o SubSeq(input, j + 1, Len(input))

RemoveAt(q, i) == SubSeq(q, 1, i - 1) \o SubSeq(q, i + 1, Len(q))

C19_AsIfAbsent ==
    \A i \in ErrItems :
        LET rest == foreground(WithoutObjectClosedAt(out[i].at),
                               <<skip_nodes, skip_ways, skip_relations>>)
        IN  /\ IsPrefix(RemoveAt(ItemsOf(out), i), rest.items)
            /\ ended => (RemoveAt(ItemsOf(out), i) = rest.items /\ rest.final = "end")
            /\ pc = "panic"
               => (RemoveAt(ItemsOf(out), i) = rest.items /\ rest.final = "panic")

C19_ErrorResynchronizes ==
    /\ [][C19_OneOutcomePerCall]_vars
    /\ []C19_IdleAfterError
    /\ []C19_AsIfAbsent

\* a node whose lat is no number gave an error item at its End, the node
\* after it was returned, then None
C19_Witness ==
    /\ ended /\ Len(out) = 2 /\ ~skip_nodes
    /\ out[1].item = ErrParseFloat /\ input[out[1].at].type = "End" /\ out[1].at = 2
    /\ out[2].item.tag = "Ok" /\ out[2].at = 3

-----------------------------------------------------------------------------
(* The reader over the documents that nest as XML does, with every setting *)
(* of the three flags: ways with children in both forms, and self-closing  *)
(* nodes (which cannot be built) and relations.                            *)

FilterAlphabet ==
    { Start("way", <<IdAttr("5")>>), End("way"),
      Start("tag", TagAttrs("a", "b")), End("tag"),
      Empty("nd", NdAttrs(<<"1">>)),
      Empty("node", <<IdAttr("1")>>),
      Empty("relation", <<IdAttr("9")>>) }

InitFilter ==
    /\ input \in {q \in SeqsUpTo(FilterAlphabet, MaxFilterEvents) : NestsWell(q, <<>>)}
    /\ pos = 0
    /\ skip_nodes \in BOOLEAN /\ skip_ways \in BOOLEAN /\ skip_relations \in BOOLEAN
    /\ obj_started = FALSE /\ do_skip = FALSE /\ elements = <<>>
    /\ pc = "caller" /\ item = None /\ out = <<>> /\ ended = FALSE
    /\ no_driver("iter")

SpecFilter == InitFilter /\ [][NextIter]_vars

(* C20.  Over a document free of structural violations, and whatever the   *)
(* three flags are, the items yielded are the items the same document      *)
(* yields with no flag set, without those of the objects of the skipped    *)
(* kinds (objects and error items), in the same order; the run does not    *)
(* abort.                                                                  *)

\* the items yielded with no flag set, one for each object closed, without
\* those of the kinds skipped by the flags of this reader
ExpectedWithFilters ==
    LET all == foreground(input, <<FALSE, FALSE, FALSE>>).items
        closers == Closers(Len(input))
        kept == SortedSeq({k \in 1..Len(all) :
                              ~FlagOfKind(KindOfName(input[closers[k]].name))})
    IN  [k \in 1..Len(kept) |-> all[kept[k]]]

C20_FilterOnlyDeletes ==
    WellFormed =>
        /\ foreground(input, <<FALSE, FALSE, FALSE>>).final = "end"
        /\ Len(foreground(input, <<FALSE, FALSE, FALSE>>).items)
               = Len(Closers(Len(input)))
        /\ pc # "panic"
        /\ IsPrefix(ItemsOf(out), ExpectedWithFilters)
        /\ ended => ItemsOf(out) = ExpectedWithFilters

-----------------------------------------------------------------------------
(* C21.  The buffer elements is empty when a call of next starts and when  *)
(* it has returned.  It is non-empty only inside an object that is not     *)
(* skipped, and then it holds the opening element of that object, a node,  *)
(* way or relation, followed by the elements opened inside it since, none  *)
(* of them a node, way or relation.  So _process_elements is only called   *)
(* with a buffer that starts with a node, way or relation: it never        *)
(* returns None for an empty buffer and never panics on the first element; *)
(* None is returned at Eof only, and the only panics are those of _next.   *)

\* _next is about to call _process_elements (lines 337 and 356)
BuilderInvoked ==
    /\ pc = "loop"
    /\ \/ /\ ~obj_started /\ read_event.type = "Empty"
          /\ read_event.name \in ObjectNames /\ ~skip_flag_of(read_event.name)
       \/ /\ obj_started /\ ~do_skip /\ read_event.type = "End"
          /\ read_event.name \in ObjectNames

\* the buffer it is called with
BuilderBuffer ==
    IF obj_started THEN elements
    ELSE Append(elements, [name |-> read_event.name, attrs |-> read_event.attrs])

C21_EmptyBetweenCalls == pc \in {"caller", "ret"} => elements = <<>>

C21_BufferIsOpenObject ==
    elements # <<>> =>
        /\ obj_started /\ ~do_skip
        /\ elements[1].name \in ObjectNames
        /\ \A i \in 2..Len(elements) : elements[i].name \notin ObjectNames
        /\ pc = "loop" => elements = GroupClosedAt(pos)

C21_BuilderGetsObject ==
    BuilderInvoked =>
        /\ BuilderBuffer # <<>>
        /\ BuilderBuffer[1].name \in ObjectNames
        /\ process_elements(BuilderBuffer) # Ok(None)
        /\ process_elements(BuilderBuffer).tag # "Panic"

C21_NoneAndPanicOnlyFromNext ==
    /\ (pc = "loop" /\ pc' = "ret" /\ item' = None) => read_event.type = "Eof"
    /\ (pc = "loop" /\ pc' = "panic") =>
           /\ read_event.type \in {"Start", "Empty"}
           /\ IF obj_started THEN read_event.name \in ObjectNames
              ELSE read_event.name \in ChildNames

C21_BufferInvariant ==
    /\ [](C21_EmptyBetweenCalls /\ C21_BufferIsOpenObject /\ C21_BuilderGetsObject)
    /\ [][C21_NoneAndPanicOnlyFromNext]_vars

\* a way was opened, a tag buffered after it, and the builder is about to
\* get both at the End of the way
C21_Witness ==
    /\ BuilderInvoked /\ obj_started
    /\ Len(elements) = 2 /\ elements[1].name = "way" /\ elements[2].name = "tag"

\* the same way has been returned and nothing of it is left
C21_WitnessReturned ==
    /\ pc = "ret" /\ item # None /\ item[1].tag = "Ok" /\ item[1].val.kind = "Way"
    /\ input[pos].type = "End" /\ input[pos - 1].name = "tag"
    /\ elements = <<>>

====
